---- MODULE Spec2Model ----
(***************************************************************************)
(* Gaussian-elimination solver of src/vector/linsys.py (class LinearSystem) *)
(* over decimal.Decimal arithmetic at getcontext().prec = 30, with the     *)
(* MyDecimal.is_near_zero tolerance.                                        *)
(*                                                                         *)
(* A Decimal is a record [sign, digits, exp] with value                    *)
(*   (-1)^sign * digits * 10^exp,                                          *)
(* digits being a little-endian sequence of decimal digits (digits[1] is   *)
(* the units digit).  Python compares Decimals by value, so every Decimal  *)
(* is kept in one canonical form (no trailing or leading zero digit, zero  *)
(* as Zero): record equality is then value equality.                       *)
(***************************************************************************)
EXTENDS Integers, Sequences, FiniteSets, TLC

VARIABLES
  heap,     \* the Python lists: heap[id] is the sequence of planes of list id
  systems,  \* the LinearSystem objects made so far: [planes: list id, dimension]
  pc,       \* "idle", or where a compute_* call stands: "tri", "rref", "solve"
  call,     \* the running compute_* call: [op, recv, work]; work is the list of its copy
  tf_i,     \* compute_triangular_form: i, the row of the for loop
  tf_j,     \* compute_triangular_form: j, the column cursor
  steps,    \* pivot-search steps of the running call: inner-loop iterations
            \* plus rows examined in the search for a swap candidate
  last,     \* the outcome of the last operation that finished
  snap,     \* heap as it was when the last operation started
  nops,     \* row-level operations done
  ncalls    \* compute_* calls made

vars == <<heap, systems, pc, call, tf_i, tf_j, steps, last, snap, nops, ncalls>>

\* the longest sequence of planes the caller passes to the constructor
MaxRows == 2
\* LinearSystem objects the caller constructs
MaxSystems == 2
\* row-level operations (set, swap, scale, add a multiple) the caller makes
MaxOps == 1
\* compute_* calls the caller makes
MaxCalls == 1

\* getcontext().prec = 30 : significant digits every arithmetic result is rounded to
prec == 30

(***************************** natural numbers *****************************)
\* A coefficient is a little-endian sequence of decimal digits; <<>> is 0.
\* Sums, differences and products are computed on limbs of four digits.

Digit(a, k) == IF 1 <= k /\ k <= Len(a) THEN a[k] ELSE 0

\* without leading (high) zeros
Trim(a) ==
  LET nz == {i \in 1..Len(a) : a[i] # 0}
  IN  IF nz = {} THEN <<>>
      ELSE SubSeq(a, 1, CHOOSE m \in nz : \A i \in nz : i <= m)

Zeros(k) == [i \in 1..k |-> 0]

\* a * 10^k
NShift(a, k) == IF a = <<>> THEN a ELSE Zeros(k) \o a

Base == 10 ^ 4

ToLimbs(a) ==
  [j \in 1..((Len(a) + 3) \div 4) |->
     Digit(a, 4 * j - 3) + 10 * Digit(a, 4 * j - 2)
       + 100 * Digit(a, 4 * j - 1) + 1000 * Digit(a, 4 * j)] \o <<>>

ToDigits(l) ==
  Trim([k \in 1..(4 * Len(l)) |->
          (l[(k - 1) \div 4 + 1] \div (10 ^ ((k - 1) % 4))) % 10])

\* the carry into limb k of a + b: some lower limb j overflows and every limb
\* between j and k passes the carry on
CarryInto(a, b, k) ==
  \E j \in 1..(k - 1) :
     /\ Digit(a, j) + Digit(b, j) >= Base
     /\ \A i \in (j + 1)..(k - 1) : Digit(a, i) + Digit(b, i) = Base - 1

LAdd(a, b) ==
  [k \in 1..((IF Len(a) > Len(b) THEN Len(a) ELSE Len(b)) + 1) |->
     (Digit(a, k) + Digit(b, k) + (IF CarryInto(a, b, k) THEN 1 ELSE 0)) % Base]
  \o <<>>

\* the borrow from limb k of a - b, for a >= b
BorrowFrom(a, b, k) ==
  \E j \in 1..(k - 1) :
     /\ Digit(a, j) < Digit(b, j)
     /\ \A i \in (j + 1)..(k - 1) : Digit(a, i) = Digit(b, i)

LSub(a, b) ==
  [k \in 1..Len(a) |->
     (Digit(a, k) - Digit(b, k) - (IF BorrowFrom(a, b, k) THEN 1 ELSE 0) + Base) % Base]
  \o <<>>

\* column k of the schoolbook product: the sum of a[i] * b[k + 1 - i], i in lo..hi
RECURSIVE LColumn(_, _, _, _, _)
LColumn(a, b, k, lo, hi) ==
  IF lo > hi THEN 0
  ELSE IF lo = hi THEN Digit(a, lo) * Digit(b, k + 1 - lo)
  ELSE LET mid == (lo + hi) \div 2
       IN  LColumn(a, b, k, lo, mid) + LColumn(a, b, k, mid + 1, hi)

\* the product: each column sum (below Base^3) is split into three limbs, and
\* the three limb sequences are added at their places
LMul(a, b) ==
  LET n == Len(a) + Len(b)
      col == [k \in 1..n |-> LColumn(a, b, k, 1, Len(a))] \o <<>>
      lo == [k \in 1..n |-> col[k] % Base] \o <<>>
      mi == [k \in 1..n |-> IF k = 1 THEN 0 ELSE (col[k - 1] \div Base) % Base] \o <<>>
      hi == [k \in 1..n |-> IF k <= 2 THEN 0 ELSE col[k - 2] \div (Base * Base)] \o <<>>
  IN  LAdd(LAdd(lo, mi), hi)

NAdd(a, b) == ToDigits(LAdd(ToLimbs(a), ToLimbs(b)))

NSub(a, b) == ToDigits(LSub(ToLimbs(a), ToLimbs(b)))

NMul(a, b) == ToDigits(LMul(ToLimbs(a), ToLimbs(b)))

\* -1, 0, 1 as a < b, a = b, a > b (a, b without leading zeros)
NCmp(a, b) ==
  IF Len(a) # Len(b) THEN (IF Len(a) < Len(b) THEN -1 ELSE 1)
  ELSE LET diff == {i \in 1..Len(a) : a[i] # b[i]}
       IN  IF diff = {} THEN 0
           ELSE LET m == CHOOSE i \in diff : \A j \in diff : j <= i
                IN  IF a[m] < b[m] THEN -1 ELSE 1

\* one step of long division: bring down digit d of the dividend; mults[k] is
\* k times the divisor, and the quotient digit is the number of multiples
\* that fit into the running remainder
NDivStep(st, d, mults) ==
  LET r == Trim(<<d>> \o st.r)
      q == Cardinality({k \in 1..9 : NCmp(mults[k], r) <= 0})
  IN  [q |-> <<q>> \o st.q, r |-> IF q = 0 THEN r ELSE NSub(r, mults[q])]

\* long division over the digits hi, hi - 1, ..., lo of a
RECURSIVE NDivRange(_, _, _, _, _)
NDivRange(a, mults, hi, lo, st) ==
  IF hi < lo THEN st
  ELSE IF hi = lo THEN NDivStep(st, a[hi], mults)
  ELSE LET mid == (hi + lo) \div 2
           upper == NDivRange(a, mults, hi, mid + 1, st)
       IN  \* the test evaluates the upper half before the lower half starts
           IF Len(upper.q) >= 0 THEN NDivRange(a, mults, mid, lo, upper) ELSE upper

\* [q, r]: quotient and remainder of a by b # 0
NDivMod(a, b) ==
  LET mults == [k \in 1..9 |-> NMul(b, <<k>>)] \o <<>>
      st == NDivRange(a, mults, Len(a), 1, [q |-> <<>>, r |-> <<>>])
  IN  [q |-> Trim(st.q), r |-> st.r]

(******************************** Decimal **********************************)

Zero == [sign |-> 0, digits |-> <<>>, exp |-> 0]

\* the canonical Decimal of value (-1)^s * a * 10^e
Canon(s, a, e) ==
  LET t == Trim(a)
  IN  IF t = <<>> THEN Zero
      ELSE LET z == (CHOOSE i \in 1..Len(t) : t[i] # 0 /\ \A j \in 1..(i - 1) : t[j] = 0) - 1
           IN  [sign |-> s, digits |-> SubSeq(t, z + 1, Len(t)), exp |-> e + z]

\* Decimal._fix under ROUND_HALF_EVEN: a result with more than prec digits is
\* rounded to prec digits, ties to the even neighbour
Fix(s, a0, e) ==
  LET a == Trim(a0)
      n == Len(a)
      k == n - prec
  IN  IF k <= 0 THEN Canon(s, a, e)
      ELSE LET kept == SubSeq(a, k + 1, n)
               lower == \E i \in 1..(k - 1) : a[i] # 0
               up == \/ a[k] > 5
                     \/ a[k] = 5 /\ lower
                     \/ a[k] = 5 /\ ~lower /\ kept[1] % 2 = 1
           IN  Canon(s, IF up THEN NAdd(kept, <<1>>) ELSE kept, e + k)

DecNeg(x) == IF x = Zero THEN Zero ELSE [x EXCEPT !.sign = 1 - x.sign]

DecAbs(x) == [x EXCEPT !.sign = 0]

\* Decimal.__mul__: the exact product, rounded
DecMul(x, y) ==
  IF x = Zero \/ y = Zero THEN Zero
  ELSE Fix((x.sign + y.sign) % 2, NMul(x.digits, y.digits), x.exp + y.exp)

\* Decimal.__add__: the exact sum, rounded
DecAdd(x, y) ==
  IF x = Zero THEN y
  ELSE IF y = Zero THEN x
  ELSE LET e == IF x.exp < y.exp THEN x.exp ELSE y.exp
           a == NShift(x.digits, x.exp - e)
           b == NShift(y.digits, y.exp - e)
           c == NCmp(a, b)
       IN  IF x.sign = y.sign THEN Fix(x.sign, NAdd(a, b), e)
           ELSE IF c = 0 THEN Zero
           ELSE IF c > 0 THEN Fix(x.sign, NSub(a, b), e)
           ELSE Fix(y.sign, NSub(b, a), e)

\* Decimal.__truediv__ for y # 0: the quotient is computed to prec + 1 digits
\* and a sticky digit for a nonzero remainder, then rounded
DecDiv(x, y) ==
  IF x = Zero THEN Zero
  ELSE LET shift == Len(y.digits) - Len(x.digits) + prec + 1
           qr == NDivMod(NShift(x.digits, shift), y.digits)
           sticky == IF qr.r = <<>> THEN 0 ELSE 1
       IN  Fix((x.sign + y.sign) % 2, <<sticky>> \o qr.q, x.exp - y.exp - shift - 1)

\* -1, 0, 1 as x < y, x = y, x > y by value (exact: no rounding)
DecCmp(x, y) ==
  LET sx == IF x = Zero THEN 0 ELSE 1 - 2 * x.sign
      sy == IF y = Zero THEN 0 ELSE 1 - 2 * y.sign
  IN  IF sx # sy THEN (IF sx < sy THEN -1 ELSE 1)
      ELSE IF sx = 0 THEN 0
      ELSE LET e == IF x.exp < y.exp THEN x.exp ELSE y.exp
           IN  sx * NCmp(NShift(x.digits, x.exp - e), NShift(y.digits, y.exp - e))

DecLt(x, y) == DecCmp(x, y) < 0

(************************* MyDecimal.is_near_zero **************************)

\* eps=1e-10 is a Python float: the comparison abs(self) < eps is made against
\* the exact value of the binary double nearest to 10^-10, which is
\* 1.0000000000000000364321973154977415791655470655996396089904010295867919921875E-10
eps ==
  [sign |-> 0, exp |-> -86, digits |->
   <<5, 7, 8, 1, 2, 9, 9, 1, 9, 7, 6, 8, 5, 9, 2, 0, 1, 0, 4, 0, 9, 9, 8, 0, 6,
     9, 3, 6, 9, 9, 5, 5, 6, 0, 7, 4, 5, 5, 6, 1, 9, 7, 5, 1, 4, 7, 7, 9, 4, 5,
     1, 3, 7, 9, 1, 2, 3, 4, 6, 3, 0, 0, 0, 0, 0, 0, 0, 0, 0, 0, 0, 0, 0, 0, 0,
     0, 1>>]

is_near_zero(x) == DecLt(DecAbs(x), eps)

(********************************* Vector **********************************)
\* A Vector is its tuple of coordinates; its dimension is the tuple's length.
\* Rows and columns are numbered from 0, as in the source.

\* a function over 1..n as a tuple
AsTuple(f) == f \o <<>>

\* v[j], the coordinate at index j
Vector_getitem(v, j) == v[j + 1]

\* Vector.times_scaler: [Decimal(c) * x for x in self.coordinates]
times_scaler(v, c) == AsTuple([k \in 1..Len(v) |-> DecMul(c, v[k])])

\* Vector.plus: [x + y for x, y in zip(self.coordinates, v.coordinates)]
plus(v, w) ==
  AsTuple([k \in 1..(IF Len(v) < Len(w) THEN Len(v) ELSE Len(w)) |-> DecAdd(v[k], w[k])])

(********************************** Plane **********************************)

Plane(normal_vector, constant_term) ==
  [normal_vector |-> normal_vector,
   constant_term |-> constant_term,
   dimension |-> Len(normal_vector)]

\* the index of the first coordinate that is not near zero; -1 stands for the
\* exception NO_NONZERO_ELTS_FOUND_MSG ('No nonzero elements found')
first_nonzero_index(vector) ==
  LET nz == {k \in 0..(Len(vector) - 1) : ~is_near_zero(vector[k + 1])}
  IN  IF nz = {} THEN -1 ELSE CHOOSE k \in nz : \A m \in nz : k <= m

(****************************** LinearSystem *******************************)
\* The row operations, on the list of planes P of a system of dimension dim.
\* Each returns [raised, planes]: whether the assertion of __setitem__ failed,
\* and the list as the operation leaves it.

ALL_PLANES_MUST_BE_IN_SAME_DIM_MSG == "All planes in the system should live in the same dimension"
NO_SOLUTIONS_MSG == "No solutions"
INF_SOLUTIONS_MSG == "Infinitely many solutions"

\* __setitem__ without its assertion
setitem_without_assert(dim, P, i, x) ==
  [raised |-> FALSE, planes |-> [P EXCEPT ![i + 1] = x]]

\* LinearSystem.__setitem__
setitem(dim, P, i, x) ==
  IF x.dimension = dim
  THEN [raised |-> FALSE, planes |-> [P EXCEPT ![i + 1] = x]]
  ELSE [raised |-> TRUE, planes |-> P]

swap_rows(dim, P, row1, row2) ==
  LET cache == P[row1 + 1]
      first == setitem(dim, P, row1, P[row2 + 1])
  IN  IF first.raised THEN first ELSE setitem(dim, first.planes, row2, cache)

multiply_coefficient_and_row(dim, P, coefficient, row) ==
  setitem(dim, P, row,
          Plane(times_scaler(P[row + 1].normal_vector, coefficient),
                DecMul(coefficient, P[row + 1].constant_term)))

add_multiple_times_row_to_row(dim, P, coefficient, row_to_add, row_to_be_added_to) ==
  setitem(dim, P, row_to_be_added_to,
          Plane(plus(times_scaler(P[row_to_add + 1].normal_vector, coefficient),
                     P[row_to_be_added_to + 1].normal_vector),
                DecAdd(DecMul(coefficient, P[row_to_add + 1].constant_term),
                       P[row_to_be_added_to + 1].constant_term)))

indices_of_first_nonzero_terms_in_each_row(P) ==
  AsTuple([i \in 1..Len(P) |-> first_nonzero_index(P[i].normal_vector)])

\* a search for a swap candidate that starts at row 0 instead of row + 1
swap_search_from_first_row(dim, P, row, col) ==
  LET found == {k \in 0..(Len(P) - 1) :
                  k # row /\ ~is_near_zero(Vector_getitem(P[k + 1].normal_vector, col))}
  IN  IF found = {}
      THEN [succeeded |-> FALSE, planes |-> P, examined |-> Len(P)]
      ELSE LET k == CHOOSE m \in found : \A n \in found : m <= n
           IN  [succeeded |-> TRUE,
                planes |-> swap_rows(dim, P, row, k).planes,
                examined |-> k + 1]

\* [succeeded, planes, examined]: examined counts the rows below `row` whose
\* coefficient the search read
swap_with_row_below_for_nozero_coefficient_if_able(dim, P, row, col) ==
  LET num_equations == Len(P)
      found == {k \in (row + 1)..(num_equations - 1) :
                  ~is_near_zero(Vector_getitem(P[k + 1].normal_vector, col))}
  IN  IF found = {}
      THEN [succeeded |-> FALSE, planes |-> P, examined |-> num_equations - 1 - row]
      ELSE LET k == CHOOSE m \in found : \A n \in found : m <= n
           IN  [succeeded |-> TRUE,
                planes |-> swap_rows(dim, P, row, k).planes,
                examined |-> k - row]

\* the loop of clear_coefficients_below from row k on
RECURSIVE clear_below_from(_, _, _, _, _)
clear_below_from(dim, P, row, col, k) ==
  IF k >= Len(P) THEN P
  ELSE LET beta == Vector_getitem(P[row + 1].normal_vector, col)
           gamma == Vector_getitem(P[k + 1].normal_vector, col)
           alpha == DecDiv(DecNeg(gamma), beta)
           Q == add_multiple_times_row_to_row(dim, P, alpha, row, k).planes
       IN  IF Len(Q) = Len(P) THEN clear_below_from(dim, Q, row, col, k + 1) ELSE Q

clear_coefficients_below(dim, P, row, col) == clear_below_from(dim, P, row, col, row + 1)

scale_row_to_make_coefficient_equal_one(dim, P, row, col) ==
  LET beta == DecDiv([sign |-> 0, digits |-> <<1>>, exp |-> 0],
                     Vector_getitem(P[row + 1].normal_vector, col))
  IN  multiply_coefficient_and_row(dim, P, beta, row).planes

\* the loop of clear_coefficients_above from row k down to row 0
RECURSIVE clear_above_from(_, _, _, _, _)
clear_above_from(dim, P, row, col, k) ==
  IF k < 0 THEN P
  ELSE LET alpha == DecNeg(Vector_getitem(P[k + 1].normal_vector, col))
           Q == add_multiple_times_row_to_row(dim, P, alpha, row, k).planes
       IN  IF Len(Q) = Len(P) THEN clear_above_from(dim, Q, row, col, k - 1) ELSE Q

clear_coefficients_above(dim, P, row, col) == clear_above_from(dim, P, row, col, row - 1)

\* the loop of compute_rref over the rows i, i - 1, ..., 0 of the triangular
\* form; pivot_indices were read from the triangular form before the loop
RECURSIVE rref_from(_, _, _, _)
rref_from(dim, P, pivot_indices, i) ==
  IF i < 0 THEN P
  ELSE LET j == pivot_indices[i + 1]
       IN  IF j < 0 THEN rref_from(dim, P, pivot_indices, i - 1)
           ELSE LET Q == clear_coefficients_above(
                           dim, scale_row_to_make_coefficient_equal_one(dim, P, i, j), i, j)
                IN  IF Len(Q) = Len(P) THEN rref_from(dim, Q, pivot_indices, i - 1) ELSE Q

\* compute_rref after compute_triangular_form has returned tf
rref_of_triangular_form(dim, tf) ==
  rref_from(dim, tf, indices_of_first_nonzero_terms_in_each_row(tf), Len(tf) - 1)

\* whether raise_exception_if_contradictory_equation raises NO_SOLUTIONS_MSG
raise_exception_if_contradictory_equation(P) ==
  \E i \in 1..Len(P) :
     /\ first_nonzero_index(P[i].normal_vector) = -1
     /\ ~is_near_zero(P[i].constant_term)

\* whether raise_exception_if_too_few_pivots raises INF_SOLUTIONS_MSG
raise_exception_if_too_few_pivots(dim, P) ==
  LET pivot_indices == indices_of_first_nonzero_terms_in_each_row(P)
      num_pivots == Cardinality({i \in 1..Len(P) : pivot_indices[i] >= 0})
  IN  num_pivots < dim

\* the two checks in the other order: rank first, contradiction second
extract_solution_rank_first(dim, rref) ==
  IF raise_exception_if_too_few_pivots(dim, rref)
  THEN [raised |-> TRUE, type |-> "Exception", str |-> INF_SOLUTIONS_MSG, coordinates |-> <<>>]
  ELSE IF raise_exception_if_contradictory_equation(rref)
  THEN [raised |-> TRUE, type |-> "Exception", str |-> NO_SOLUTIONS_MSG, coordinates |-> <<>>]
  ELSE [raised |-> FALSE, type |-> "Vector", str |-> "",
        coordinates |-> AsTuple([i \in 1..dim |-> rref[i].constant_term])]

\* what do_gaussian_elimination_and_extract_solution does with the rref:
\* the exception it raises, or the Vector it returns
extract_solution(dim, rref) ==
  IF raise_exception_if_contradictory_equation(rref)
  THEN [raised |-> TRUE, type |-> "Exception", str |-> NO_SOLUTIONS_MSG, coordinates |-> <<>>]
  ELSE IF raise_exception_if_too_few_pivots(dim, rref)
  THEN [raised |-> TRUE, type |-> "Exception", str |-> INF_SOLUTIONS_MSG, coordinates |-> <<>>]
  ELSE [raised |-> FALSE, type |-> "Vector", str |-> "",
        coordinates |-> AsTuple([i \in 1..dim |-> rref[i].constant_term])]

\* compute_solution without its except clause: every exception goes on
compute_solution_without_except(r) == r

\* compute_solution: the two messages come back as values, anything else is
\* raised again
compute_solution_result(r) ==
  IF r.raised /\ (r.str = NO_SOLUTIONS_MSG \/ r.str = INF_SOLUTIONS_MSG)
  THEN [raised |-> FALSE, type |-> "str", str |-> r.str, coordinates |-> <<>>]
  ELSE r

(******************************** the inputs *******************************)

Dec(sign, digits, exp) == [sign |-> sign, digits |-> digits, exp |-> exp]

One == Dec(0, <<1>>, 0)
Two == Dec(0, <<2>>, 0)
Three == Dec(0, <<3>>, 0)
Five == Dec(0, <<5>>, 0)
Six == Dec(0, <<6>>, 0)
\* 1E-11, below the tolerance, and 1E-9, above it
Tiny == Dec(0, <<1>>, -11)
Small == Dec(0, <<1>>, -9)

\* the planes the caller builds systems from and sets rows to, of 1 and 2 variables:
\*   0x = 5    0x = 0    3x = 6
\*   x + y = 2    y = 1    1E-11 x = 1
\*   1E-11 x + 1E-9 y = 2.01E-9    1E-11 x + y = 2.00000000001
Planes ==
  { Plane(<<Zero>>, Five), Plane(<<Zero>>, Zero), Plane(<<Three>>, Six),
    Plane(<<One, One>>, Two), Plane(<<Zero, One>>, One), Plane(<<Tiny, Zero>>, One),
    Plane(<<Tiny, Small>>, Dec(0, <<1, 0, 2>>, -11)),
    Plane(<<Tiny, One>>, Dec(0, <<1, 0, 0, 0, 0, 0, 0, 0, 0, 0, 0, 2>>, -11)) }

\* the planes the caller sets a row to
SetPlanes == { Plane(<<Zero>>, Zero), Plane(<<Zero, One>>, One) }

\* the coefficients the caller scales and adds rows with
Coefficients == { Two }

RECURSIVE SeqsUpTo(_, _)
SeqsUpTo(S, n) ==
  IF n = 0 THEN {<<>>}
  ELSE LET shorter == SeqsUpTo(S, n - 1)
       IN  shorter \cup {Append(q, x) : q \in shorter, x \in S}

\* the list the caller passes to LinearSystem(planes)
arg == 1

NoCall == [op |-> "", recv |-> 0, work |-> 0]
NoResult == [op |-> "", recv |-> 0, raised |-> FALSE, type |-> "None", str |-> "",
             coordinates |-> <<>>, system |-> 0, xdim |-> 0]

Init ==
  /\ heap \in {<<planes>> : planes \in SeqsUpTo(Planes, MaxRows)}
  /\ systems = <<>>
  /\ pc = "idle"
  /\ call = NoCall
  /\ tf_i = 0
  /\ tf_j = 0
  /\ steps = 0
  /\ last = NoResult
  /\ snap = heap
  /\ nops = 0
  /\ ncalls = 0

(****************************** construction *******************************)

\* __init__ without the assertion on the dimensions
init_without_assert(planes) ==
  IF heap[planes] = <<>>
  THEN [raised |-> TRUE, type |-> "IndexError", str |-> "list index out of range"]
  ELSE [raised |-> FALSE, type |-> "LinearSystem", str |-> "",
        self |-> [planes |-> planes, dimension |-> heap[planes][1].dimension]]

\* LinearSystem.__init__(planes): planes[0] raises IndexError on an empty list,
\* a failed assertion becomes Exception(ALL_PLANES_MUST_BE_IN_SAME_DIM_MSG),
\* and the object keeps the list it was given
init_LinearSystem(planes) ==
  IF heap[planes] = <<>>
  THEN [raised |-> TRUE, type |-> "IndexError", str |-> "list index out of range"]
  ELSE IF \E k \in 1..Len(heap[planes]) : heap[planes][k].dimension # heap[planes][1].dimension
  THEN [raised |-> TRUE, type |-> "Exception", str |-> ALL_PLANES_MUST_BE_IN_SAME_DIM_MSG]
  ELSE [raised |-> FALSE, type |-> "LinearSystem", str |-> "",
        self |-> [planes |-> planes, dimension |-> heap[planes][1].dimension]]

Construct ==
  /\ pc = "idle"
  /\ Len(systems) < MaxSystems
  /\ LET r == init_LinearSystem(arg)
     IN  /\ systems' = IF r.raised THEN systems ELSE Append(systems, r.self)
         /\ last' = [NoResult EXCEPT !.op = "LinearSystem", !.raised = r.raised,
                                     !.type = r.type, !.str = r.str,
                                     !.system = IF r.raised THEN 0 ELSE Len(systems) + 1]
  /\ snap' = heap
  /\ UNCHANGED <<heap, pc, call, tf_i, tf_j, steps, nops, ncalls>>

(***************************** row operations ******************************)

Rows(s) == 0..(Len(heap[systems[s].planes]) - 1)

\* a row operation on system s that ends as r = [raised, planes]; xdim is the
\* dimension of the plane a set was given, 0 for the other operations
RowOp(op, s, r, xdim) ==
  /\ heap' = [heap EXCEPT ![systems[s].planes] = r.planes]
  /\ last' = [NoResult EXCEPT !.op = op, !.recv = s, !.raised = r.raised,
                              !.xdim = xdim,
                              !.type = IF r.raised THEN "Exception" ELSE "None",
                              !.str = IF r.raised THEN ALL_PLANES_MUST_BE_IN_SAME_DIM_MSG ELSE ""]
  /\ snap' = heap
  /\ nops' = nops + 1
  /\ UNCHANGED <<systems, pc, call, tf_i, tf_j, steps, ncalls>>

SetItem ==
  /\ pc = "idle" /\ nops < MaxOps
  /\ \E s \in 1..Len(systems) : \E row \in Rows(s) : \E x \in SetPlanes :
       RowOp("setitem", s, setitem(systems[s].dimension, heap[systems[s].planes], row, x),
             x.dimension)

SwapRows ==
  /\ pc = "idle" /\ nops < MaxOps
  /\ \E s \in 1..Len(systems) : \E row1 \in Rows(s) : \E row2 \in Rows(s) :
       RowOp("swap_rows", s,
             swap_rows(systems[s].dimension, heap[systems[s].planes], row1, row2), 0)

MultiplyCoefficientAndRow ==
  /\ pc = "idle" /\ nops < MaxOps
  /\ \E s \in 1..Len(systems) : \E row \in Rows(s) : \E c \in Coefficients :
       RowOp("multiply_coefficient_and_row", s,
             multiply_coefficient_and_row(systems[s].dimension, heap[systems[s].planes], c, row),
             0)

AddMultipleTimesRowToRow ==
  /\ pc = "idle" /\ nops < MaxOps
  /\ \E s \in 1..Len(systems) : \E row1 \in Rows(s) : \E row2 \in Rows(s) : \E c \in Coefficients :
       RowOp("add_multiple_times_row_to_row", s,
             add_multiple_times_row_to_row(systems[s].dimension, heap[systems[s].planes],
                                           c, row1, row2), 0)

(***************************** compute_* calls *****************************)

ComputeOps == {"compute_triangular_form", "compute_rref", "compute_solution"}

\* "system = self" instead of "system = deepcopy(self)"
system_is_self(s) ==
  [heap |-> heap, planes |-> systems[s].planes]

\* deepcopy(self): the copy's planes are a new list with the same rows
deepcopy(s) ==
  [heap |-> Append(heap, heap[systems[s].planes]), planes |-> Len(heap) + 1]

\* a compute_* call on system s starts: compute_triangular_form copies the
\* receiver and sets j = 0
Call ==
  /\ pc = "idle" /\ ncalls < MaxCalls
  /\ \E s \in 1..Len(systems) : \E op \in ComputeOps :
       /\ heap' = deepcopy(s).heap
       /\ call' = [op |-> op, recv |-> s, work |-> deepcopy(s).planes]
  /\ pc' = "tri"
  /\ tf_i' = 0
  /\ tf_j' = 0
  /\ steps' = 0
  /\ snap' = heap
  /\ ncalls' = ncalls + 1
  /\ UNCHANGED <<systems, last, nops>>

num_equations == Len(heap[call.work])
num_variables == systems[call.recv].dimension

\* one iteration of "while j < num_variables" in row i
TriIter ==
  /\ pc = "tri"
  /\ tf_i < num_equations
  /\ tf_j < num_variables
  /\ LET P == heap[call.work]
         c == Vector_getitem(P[tf_i + 1].normal_vector, tf_j)
         sw == swap_with_row_below_for_nozero_coefficient_if_able(num_variables, P, tf_i, tf_j)
     IN  IF is_near_zero(c)
         THEN IF ~sw.succeeded
              THEN \* j += 1; continue
                   /\ tf_j' = tf_j + 1
                   /\ steps' = steps + 1 + sw.examined
                   /\ UNCHANGED <<heap, tf_i>>
              ELSE \* clear_coefficients_below(i, j); j += 1; break
                   /\ heap' = [heap EXCEPT ![call.work] =
                                 clear_coefficients_below(num_variables, sw.planes, tf_i, tf_j)]
                   /\ tf_j' = tf_j + 1
                   /\ tf_i' = tf_i + 1
                   /\ steps' = steps + 1 + sw.examined
         ELSE /\ heap' = [heap EXCEPT ![call.work] =
                            clear_coefficients_below(num_variables, P, tf_i, tf_j)]
              /\ tf_j' = tf_j + 1
              /\ tf_i' = tf_i + 1
              /\ steps' = steps + 1
  /\ UNCHANGED <<systems, pc, call, last, snap, nops, ncalls>>

\* a value a compute_* call returns or raises
Outcome(r, system) ==
  [NoResult EXCEPT !.op = call.op, !.recv = call.recv, !.raised = r.raised, !.type = r.type,
                   !.str = r.str, !.coordinates = r.coordinates, !.system = system]

ReturnsSystem ==
  [raised |-> FALSE, type |-> "LinearSystem", str |-> "", coordinates |-> <<>>]

\* the for loop of compute_triangular_form is over (no row or no column is
\* left): "return system"
TriReturn ==
  /\ pc = "tri"
  /\ tf_i >= num_equations \/ tf_j >= num_variables
  /\ IF call.op = "compute_triangular_form"
     THEN /\ systems' = Append(systems, [planes |-> call.work, dimension |-> num_variables])
          /\ last' = Outcome(ReturnsSystem, Len(systems) + 1)
          /\ pc' = "idle"
     ELSE /\ pc' = "rref"
          /\ UNCHANGED <<systems, last>>
  /\ UNCHANGED <<heap, call, tf_i, tf_j, steps, snap, nops, ncalls>>

\* compute_rref after "tf = self.compute_triangular_form()"
Rref ==
  /\ pc = "rref"
  /\ heap' = [heap EXCEPT ![call.work] = rref_of_triangular_form(num_variables, heap[call.work])]
  /\ IF call.op = "compute_rref"
     THEN /\ systems' = Append(systems, [planes |-> call.work, dimension |-> num_variables])
          /\ last' = Outcome(ReturnsSystem, Len(systems) + 1)
          /\ pc' = "idle"
     ELSE /\ pc' = "solve"
          /\ UNCHANGED <<systems, last>>
  /\ UNCHANGED <<call, tf_i, tf_j, steps, snap, nops, ncalls>>

\* compute_solution after "rref = self.compute_rref()"
Solve ==
  /\ pc = "solve"
  /\ last' = Outcome(compute_solution_result(extract_solution(num_variables, heap[call.work])), 0)
  /\ pc' = "idle"
  /\ UNCHANGED <<heap, systems, call, tf_i, tf_j, steps, snap, nops, ncalls>>

Next ==
  \/ Construct
  \/ SetItem
  \/ SwapRows
  \/ MultiplyCoefficientAndRow
  \/ AddMultipleTimesRowToRow
  \/ Call
  \/ TriIter
  \/ TriReturn
  \/ Rref
  \/ Solve

Spec == Init /\ [][Next]_vars

(******************************** the claims *******************************)

RowOps == {"setitem", "swap_rows", "multiply_coefficient_and_row", "add_multiple_times_row_to_row"}

\* the rows of system s
PlanesOf(s) == heap[systems[s].planes]

\* the last operation was op and has finished
Finished(op) == pc = "idle" /\ last.op = op

\* the pivot of row r of P (rows from 1): the column of its first coefficient
\* that is not near zero, -1 if it has none
PivotOf(P, r) == first_nonzero_index(P[r].normal_vector)

PivotRows(P) == {r \in 1..Len(P) : PivotOf(P, r) >= 0}

ContradictoryRow(P) ==
  \E r \in 1..Len(P) :
    /\ \A k \in 1..Len(P[r].normal_vector) : is_near_zero(P[r].normal_vector[k])
    /\ ~is_near_zero(P[r].constant_term)

DecSub(x, y) == DecAdd(x, DecNeg(y))

RECURSIVE Dot(_, _)
Dot(v, w) ==
  IF v = <<>> THEN Zero ELSE DecAdd(DecMul(Head(v), Head(w)), Dot(Tail(v), Tail(w)))

\* C1: compute_triangular_form, compute_rref and compute_solution leave every
\* list that existed when the call started, the receiver's among them, as it
\* was, while they run and after they return; the system they return has a
\* list of rows of its own; and a row operation on that system leaves the
\* receiver of the call unchanged.
C1_ReceiverUnchanged ==
  /\ (pc # "idle" \/ last.op \in ComputeOps) =>
       \A k \in 1..Len(snap) : heap[k] = snap[k]
  /\ (pc = "idle" /\ last.op \in ComputeOps /\ last.system # 0) =>
       /\ systems[last.system].planes # arg
       /\ \A s \in 1..Len(systems) :
            s # last.system => systems[s].planes # systems[last.system].planes
  /\ (pc = "idle" /\ last.op \in RowOps /\ call.work # 0
        /\ systems[last.recv].planes = call.work) =>
       PlanesOf(call.recv) = snap[systems[call.recv].planes]

\* compute_rref has returned a system whose rows differ from the receiver's
C1_Witness ==
  /\ Finished("compute_rref")
  /\ PlanesOf(last.system) # PlanesOf(last.recv)
  /\ PlanesOf(last.recv) = snap[systems[last.recv].planes]

\* C2: in the system compute_rref returns, every row with a pivot has
\* coefficient exactly 1 at its pivot column, every other row is near zero in
\* that column, and the pivot columns strictly increase with the row index.
C2_RrefInvariant ==
  Finished("compute_rref") =>
    LET P == PlanesOf(last.system)
    IN  /\ \A r \in PivotRows(P) : DecCmp(P[r].normal_vector[PivotOf(P, r) + 1], One) = 0
        /\ \A r \in PivotRows(P) : \A q \in 1..Len(P) :
             q # r => is_near_zero(P[q].normal_vector[PivotOf(P, r) + 1])
        /\ \A r \in PivotRows(P) : \A q \in PivotRows(P) :
             r < q => PivotOf(P, r) < PivotOf(P, q)

\* the solution vectors x* the systems of the model are built from
KnownSolutions(d) == [1..d -> {One, Two}]

\* every row of P has constant term row . x
BuiltFrom(P, x) ==
  \A r \in 1..Len(P) : DecCmp(Dot(P[r].normal_vector, AsTuple(x)), P[r].constant_term) = 0

\* the determinant of a square system of 1 or 2 variables
Determinant(P) ==
  IF Len(P) = 1 THEN P[1].normal_vector[1]
  ELSE DecSub(DecMul(P[1].normal_vector[1], P[2].normal_vector[2]),
              DecMul(P[1].normal_vector[2], P[2].normal_vector[1]))

SquareFullRank(P, d) == Len(P) = d /\ d \in {1, 2} /\ DecCmp(Determinant(P), Zero) # 0

\* C3: on a square, full-rank system whose constant terms are row . x* for a
\* known x*, compute_solution returns a Vector whose coordinates equal x*
\* (within the tolerance).
C3_SolutionIsXStar ==
  Finished("compute_solution") =>
    LET P == PlanesOf(last.recv)
        d == systems[last.recv].dimension
    IN  \A x \in KnownSolutions(d) :
          (SquareFullRank(P, d) /\ BuiltFrom(P, x)) =>
            /\ ~last.raised
            /\ last.type = "Vector"
            /\ Len(last.coordinates) = d
            /\ \A k \in 1..d : is_near_zero(DecSub(last.coordinates[k], x[k]))

\* C4: when the RREF has a row whose coefficients are all near zero and whose
\* constant term is not, compute_solution returns the no-solution message,
\* whatever the number of pivots.
C4_ContradictionPrecedence ==
  (Finished("compute_solution") /\ ContradictoryRow(heap[call.work])) =>
    /\ ~last.raised
    /\ last.type = "str"
    /\ last.str = NO_SOLUTIONS_MSG

\* compute_solution has answered on an RREF with a contradictory row and fewer
\* pivots than variables
C4_Witness ==
  /\ Finished("compute_solution")
  /\ ContradictoryRow(heap[call.work])
  /\ Cardinality(PivotRows(heap[call.work])) < systems[last.recv].dimension
  /\ last.str = NO_SOLUTIONS_MSG

ConsistentEquation(p) ==
  \/ \E k \in 1..Len(p.normal_vector) : DecCmp(p.normal_vector[k], Zero) # 0
  \/ DecCmp(p.constant_term, Zero) = 0

DimensionsDisagree(P) ==
  \E r \in 1..Len(P) : \E q \in 1..Len(P) : P[r].dimension # P[q].dimension

\* C6: the constructor fails with the dimension-mismatch error when two of the
\* planes disagree on dimension, and with the error of an empty sequence
\* (Python's IndexError, from planes[0]) when there is no plane; in both cases
\* it produces no LinearSystem.
C6_ConstructorErrors ==
  Finished("LinearSystem") =>
    /\ DimensionsDisagree(heap[arg]) =>
         /\ last.raised
         /\ last.type = "Exception"
         /\ last.str = ALL_PLANES_MUST_BE_IN_SAME_DIM_MSG
    /\ heap[arg] = <<>> =>
         /\ last.raised
         /\ last.type = "IndexError"
    /\ last.raised => (last.system = 0 /\ systems = <<>>)
    /\ ~last.raised => (last.system = Len(systems) /\ systems[last.system].planes = arg)

\* the constructor has refused planes of two dimensions
C6_Witness ==
  /\ Finished("LinearSystem")
  /\ DimensionsDisagree(heap[arg])
  /\ last.raised
  /\ last.str = ALL_PLANES_MUST_BE_IN_SAME_DIM_MSG
  /\ systems = <<>>

\* C7: every row of every system has the system's dimension, whatever row
\* operations were made; a set fails exactly when its plane has another
\* dimension, with the dimension-mismatch error, and then no row has changed.
C7_DimensionInvariant ==
  /\ \A s \in 1..Len(systems) : \A r \in 1..Len(PlanesOf(s)) :
       PlanesOf(s)[r].dimension = systems[s].dimension
  /\ Finished("setitem") =>
       /\ last.raised <=> last.xdim # systems[last.recv].dimension
       /\ last.raised => (last.str = ALL_PLANES_MUST_BE_IN_SAME_DIM_MSG /\ heap = snap)

\* a set with a plane of another dimension has failed
C7_Witness ==
  /\ Finished("setitem")
  /\ last.xdim # systems[last.recv].dimension
  /\ last.raised
  /\ heap = snap

\* C8: in the system compute_triangular_form returns, under the near-zero
\* predicate, a row below another has a pivot only if the row above has one,
\* in a column further left: pivot columns strictly increase with the row
\* index and the rows without a pivot are the last ones.
C8_TriangularPivots ==
  Finished("compute_triangular_form") =>
    LET P == PlanesOf(last.system)
    IN  \A r \in 1..Len(P) : \A q \in PivotRows(P) :
          r < q => (PivotOf(P, r) >= 0 /\ PivotOf(P, r) < PivotOf(P, q))

\* the pivot-search steps of a call stay within E x V, and its cursors within
\* the system
StepBound ==
  pc # "idle" =>
    /\ steps <= num_equations * num_variables
    /\ tf_i <= num_equations
    /\ tf_j <= num_variables

\* an iteration of the inner loop moves j up by one and counts at least one
\* more step
JAdvances == (pc = "tri" /\ pc' = "tri") => (tf_j' = tf_j + 1 /\ steps' > steps)

\* j does not decrease while a call runs
JNeverDecreases == pc = "tri" => tf_j' >= tf_j

\* C9: compute_triangular_form terminates: the column cursor j never
\* decreases and goes up by one on every iteration of the inner loop, and the
\* number of pivot-search steps (iterations plus rows examined in the search
\* for a swap candidate) grows with every iteration and never exceeds E x V,
\* so that the loop makes at most E x V iterations.
C9_Termination ==
  /\ []StepBound
  /\ [][JAdvances]_vars
  /\ [][JNeverDecreases]_vars

\* an elimination has ended after exactly E x V steps, more than one of them
C9_Witness ==
  /\ pc = "rref"
  /\ steps = num_equations * num_variables
  /\ steps > 1
  /\ tf_j = num_variables

\* C10: after a row operation on one system, the rows of every other system
\* and the entries of the sequence the caller gave the constructor are
\* unchanged.
C10_NoSharedState ==
  (pc = "idle" /\ last.op \in RowOps) =>
    /\ \A t \in 1..Len(systems) :
         t # last.recv => PlanesOf(t) = snap[systems[t].planes]
    /\ heap[arg] = snap[arg]

====
